---- MODULE Spec2Model ----
(***************************************************************************)
(* EcoSort: the image validation pipeline (src/src/prediction.py) and the  *)
(* classification-response pipeline of the /classify route (src/app.py)    *)
(* and of WasteClassifier.classify_waste (src/src/model.py).               *)
(*                                                                         *)
(* Five specifications share the operators below:                          *)
(*   SpecValidate  validate_image applied to every image file of Images    *)
(*   SpecExtract   the two response extractors applied to every text of    *)
(*                 at most MaxLen symbols                                   *)
(*   Spec          the /classify request handler, request after request    *)
(*   SpecStages    validate_image and classify_waste, each on every input  *)
(*                 and every outcome of the model call                     *)
(*   SpecFormat    format_classification_result on every mapping, and on   *)
(*                 the mapping app.py prepares for it                      *)
(***************************************************************************)
EXTENDS Integers, Sequences, FiniteSets, TLC

VARIABLES
    v_in,       \* SpecValidate: the file handed to validate_image
    v_out,      \* SpecValidate: what validate_image returned for it
    v_pc,       \* SpecValidate: "ready" before the call, "returned" after
    e_text,     \* SpecExtract: the reply text
    e_pc,       \* SpecExtract: "ready", "classified" (app.py ran), "done" (model.py ran too)
    e_clean,    \* SpecExtract: clean_text of /classify, as handed to json.loads
    e_resp,     \* SpecExtract: the response body /classify builds from the text
    e_match,    \* SpecExtract: json_match of classify_waste
    e_result,   \* SpecExtract: the mapping classify_waste returns for the text
    env,        \* Spec: the process environment (API key, model variants that fail)
    classifier_global,  \* Spec: the module-level classifier of app.py
    constructions,      \* Spec: WasteClassifier() calls so far
    served,     \* Spec: requests answered so far
    pc,         \* Spec: where the request being handled stands
    request,    \* Spec: the POST being handled
    file_data,  \* Spec: file.read() of the request
    validation, \* Spec: what validate_image returned for the request
    classifier, \* Spec: the handler's local classifier
    model_input,\* Spec: the image bytes handed to generate_content
    reply,      \* Spec: the outcome of generate_content and response.text
    response,   \* Spec: status and JSON body of the answer
    w_in,       \* SpecStages: the image_input handed to classify_waste
    w_reply,    \* SpecStages: the outcome of generate_content and response.text
    w_out,      \* SpecStages: what classify_waste returned, or the exception that left it
    w_pc,       \* SpecStages: "ready" before the call, "returned" after
    f_result,   \* SpecFormat: result and confidence as app.py holds them at line 329
    f_in,       \* SpecFormat: the mapping handed to format_classification_result
    f_out,      \* SpecFormat: what it returned, or the exception that left it
    f_pc        \* SpecFormat: "prepare", "call", "formatted"

vvars == <<v_in, v_out, v_pc>>

evars == <<e_text, e_pc, e_clean, e_resp, e_match, e_result>>

pvars == <<env, classifier_global, constructions, served, pc, request, file_data,
           validation, classifier, model_input, reply, response>>

wvars == <<w_in, w_reply, w_out, w_pc>>

fvars == <<f_result, f_in, f_out, f_pc>>

vars == <<vvars, evars, pvars, wvars, fvars>>

(***************************************************************************)
(* Image files.  A file is described by what the code and Pillow look at:  *)
(* its length in bytes, the container format its header identifies         *)
(* ("none" when no Pillow plugin accepts it), the decoded colour mode, and *)
(* whether the header is one Image.open refuses for another reason (pixel  *)
(* count over the decompression-bomb limit) or the body is truncated, so   *)
(* that the lazy pixel load fails later in convert/save.                   *)
(***************************************************************************)
MaxBytes == 5 * 1024 * 1024

Sizes == {0, 1, MaxBytes - 1, MaxBytes, MaxBytes + 1}

SupportedFormats == {"jpeg", "jpg", "png", "webp"}

\* colour modes Pillow reports for each container format
FormatModes ==
    [JPEG |-> {"RGB", "L", "CMYK"},
     PNG  |-> {"RGB", "RGBA", "P", "LA", "L", "1", "I;16"},
     WEBP |-> {"RGB", "RGBA"},
     GIF  |-> {"P", "L"},
     BMP  |-> {"RGB", "P"}]

Formats == DOMAIN FormatModes

\* a byte buffer: the encoding of its content, the colour mode it decodes to and
\* who wrote it (the uploader's bytes, or Pillow's JPEG encoder at quality 90)
NoBuffer == [enc |-> "none", mode |-> "none", writer |-> "none"]

Images ==
    { [size |-> s, header |-> "none", mode |-> "none",
       bomb |-> FALSE, truncated |-> FALSE] : s \in Sizes }
    \cup
    { [size |-> s, header |-> f, mode |-> m, bomb |-> b, truncated |-> t] :
        s \in Sizes \ {0}, f \in Formats, m \in UNION {FormatModes[g] : g \in Formats},
        b \in BOOLEAN, t \in BOOLEAN }

\* the files that exist: a header comes with one of its format's modes,
\* and no image fits in a single byte
RealImages ==
    { i \in Images : \/ i.header = "none"
                     \/ i.mode \in FormatModes[i.header] /\ i.size > 1 }

\* the bytes of an uploaded file, as file.read() returns them
RawBytes(f) == [enc |-> f.header, mode |-> f.mode, writer |-> "upload"]

\* str.lower() on the format names Pillow uses
Lower(s) ==
    CASE s = "JPEG" -> "jpeg"
      [] s = "PNG"  -> "png"
      [] s = "WEBP" -> "webp"
      [] s = "GIF"  -> "gif"
      [] s = "BMP"  -> "bmp"
      [] OTHER      -> s

(***************************************************************************)
(* Pillow, as validate_image uses it.                                      *)
(***************************************************************************)
\* Image.open(image_buffer): identifies the header, loads no pixels
ImageOpen(f) ==
    IF f.header = "none"
    THEN [status |-> "UnidentifiedImageError", format |-> "none", mode |-> "none"]
    ELSE IF f.bomb
    THEN [status |-> "DecompressionBombError", format |-> f.header, mode |-> f.mode]
    ELSE [status |-> "ok", format |-> f.header, mode |-> f.mode]

\* img.convert('RGB'): loads the pixels, which fails on a truncated body
ImageConvert(f, m) ==
    IF f.truncated THEN [status |-> "OSError", mode |-> "none"]
    ELSE [status |-> "ok", mode |-> m]

\* the modes Pillow's JPEG encoder writes, with the mode of the JPEG written
JpegRawMode == ("RGB" :> "RGB") @@ ("L" :> "L") @@ ("CMYK" :> "CMYK") @@ ("1" :> "L")

\* img.save(buffer, format='JPEG', quality=90) on an image of mode m: loads the
\* pixels if convert has not, and refuses the modes JPEG cannot hold
JpegSave(f, m) ==
    IF f.truncated THEN [status |-> "OSError", buffer |-> NoBuffer]
    ELSE IF m \notin DOMAIN JpegRawMode THEN [status |-> "OSError", buffer |-> NoBuffer]
    ELSE [status |-> "ok",
          buffer |-> [enc |-> "JPEG", mode |-> JpegRawMode[m], writer |-> "pillow-q90"]]

(***************************************************************************)
(* WastePrediction.validate_image                                          *)
(***************************************************************************)
EmptyFile       == "The uploaded file is empty."
FileTooLarge    == "Image size should be less than 5MB."
NotValidImage   == "The uploaded file is not a valid image."
UnsupportedFmt  == "Unsupported image format"
UnsupportedExt  == "Unsupported file format"
ErrorProcessing == "Error processing image"
InvalidFile     == "Invalid file or file path provided."

Reject(reason, detail, steps) ==
    [valid |-> FALSE, reason |-> reason, detail |-> detail,
     buffer |-> NoBuffer, steps |-> steps]

Accept(buf, steps) ==
    [valid |-> TRUE, reason |-> "", detail |-> "", buffer |-> buf, steps |-> steps]

\* len(image_data) > 5 * 1024 * 1024
TooLarge_AtLimit(n) == n >= MaxBytes

TooLarge(n) == n > MaxBytes

\* convert to RGB "if necessary", then re-encode as JPEG; any exception of
\* either call lands in "except Exception"
ConvertAndSave(f, img, steps) ==
    LET needs  == img.mode \in {"RGBA", "P"}
        conv   == IF needs THEN ImageConvert(f, "RGB")
                           ELSE [status |-> "ok", mode |-> img.mode]
        steps1 == IF needs THEN Append(steps, "convert") ELSE steps
        sv     == JpegSave(f, conv.mode)
    IN  IF conv.status # "ok" THEN Reject(ErrorProcessing, conv.status, steps1)
        ELSE IF sv.status # "ok"
        THEN Reject(ErrorProcessing, sv.status, Append(steps1, "save"))
        ELSE Accept(sv.buffer, Append(steps1, "save"))

\* the inner try of the file-like branch: open, format check, convert, save
OpenAndProcess_NoReturn(f, steps) ==
    LET img == ImageOpen(f)
        s   == Append(steps, "open")
    IN  IF img.status = "UnidentifiedImageError" THEN Reject(NotValidImage, "", s)
        ELSE IF img.status # "ok" THEN Reject(ErrorProcessing, img.status, s)
        ELSE ConvertAndSave(f, img, Append(s, "format_check"))

OpenAndProcess(f, steps) ==
    LET img == ImageOpen(f)
        s   == Append(steps, "open")
    IN  IF img.status = "UnidentifiedImageError" THEN Reject(NotValidImage, "", s)
        ELSE IF img.status # "ok" THEN Reject(ErrorProcessing, img.status, s)
        ELSE IF Lower(img.format) \notin SupportedFormats
        THEN Reject(UnsupportedFmt, img.format, Append(s, "format_check"))
        ELSE ConvertAndSave(f, img, Append(s, "format_check"))

\* the file-like branch: read, empty check, size check, then the inner try
ValidateStream(f) ==
    IF f.size = 0 THEN Reject(EmptyFile, "", <<"read", "empty_check">>)
    ELSE IF TooLarge(f.size)
    THEN Reject(FileTooLarge, "", <<"read", "empty_check", "size_check">>)
    ELSE OpenAndProcess(f, <<"read", "empty_check", "size_check">>)

\* the path branch: extension check, size check, open, convert, save
ValidatePath(ext, f) ==
    IF ext \notin {".jpg", ".jpeg", ".png", ".webp"}
    THEN Reject(UnsupportedExt, ext, <<"ext_check">>)
    ELSE IF TooLarge(f.size) THEN Reject(FileTooLarge, "", <<"ext_check", "size_check">>)
    ELSE LET img == ImageOpen(f)
             s   == <<"ext_check", "size_check", "open">>
         IN  IF img.status = "UnidentifiedImageError" THEN Reject(NotValidImage, "", s)
             ELSE IF img.status # "ok" THEN Reject(ErrorProcessing, img.status, s)
             ELSE ConvertAndSave(f, img, s)

\* image_file is a stream over a file, the path of a file, or anything else
validate_image(image_file) ==
    IF image_file.kind = "stream" THEN ValidateStream(image_file.file)
    ELSE IF image_file.kind = "path" /\ image_file.exists
    THEN ValidatePath(image_file.ext, image_file.file)
    ELSE Reject(InvalidFile, "", <<>>)

Extensions == {".png", ".jpg", ".gif"}

AbsentFile == [size |-> 0, header |-> "none", mode |-> "none",
               bomb |-> FALSE, truncated |-> FALSE]

\* what a caller can hand to validate_image
ImageInputs ==
    { [kind |-> "stream", file |-> f, ext |-> "", exists |-> TRUE] : f \in RealImages }
    \cup
    { [kind |-> "path", file |-> f, ext |-> e, exists |-> TRUE] :
        f \in RealImages, e \in Extensions }
    \cup
    { [kind |-> k, file |-> AbsentFile, ext |-> "", exists |-> FALSE] :
        k \in {"path", "other"} }

NoOutcome == [valid |-> FALSE, reason |-> "", detail |-> "", buffer |-> NoBuffer,
              steps |-> <<>>]

(***************************************************************************)
(* Model replies.  A reply text is a sequence of symbols, each standing    *)
(* for a run of characters the extractors treat as a unit:                 *)
(*   "J" the opening marker ```json        "F" a bare fence ```            *)
(*   "{" and "}" braces                    " " white space                 *)
(*   "x" a word of prose                   "7" a JSON number               *)
(*   any other symbol is one member "key": value of a JSON object, with    *)
(*   the comma that separates it from its neighbour.                       *)
(* The three backticks of "J" are a fence for every search for ```.        *)
(***************************************************************************)
Str(s) == [ty |-> "str", s |-> s, n |-> 0]

Num(n) == [ty |-> "int", s |-> "", n |-> n]

\* JSON true and false; a Python bool is the integer 1 or 0
Bool(b) == [ty |-> "bool", s |-> "", n |-> IF b THEN 1 ELSE 0]

\* a category that names every kind of waste
MixedWaste == "plastic paper metal glass biodegradable hazardous e-waste"

\* the members a reply can carry: symbol -> key and value
MemberTable ==
    ("category:Plastic Bottle" :> [k |-> "category", v |-> Str("Plastic Bottle")])
    @@ ("category:Biodegradable" :> [k |-> "category", v |-> Str("Biodegradable")])
    @@ ("category:Non-biodegradable" :> [k |-> "category", v |-> Str("Non-biodegradable")])
    @@ ("category:7" :> [k |-> "category", v |-> Num(7)])
    @@ ("category:mixed" :> [k |-> "category", v |-> Str(MixedWaste)])
    @@ ("confidence:85" :> [k |-> "confidence", v |-> Num(85)])
    @@ ("confidence:150" :> [k |-> "confidence", v |-> Num(150)])
    @@ ("confidence:-5" :> [k |-> "confidence", v |-> Num(-5)])
    @@ ("confidence:5" :> [k |-> "confidence", v |-> Num(5)])
    @@ ("confidence:high" :> [k |-> "confidence", v |-> Str("high")])
    @@ ("confidence:medium" :> [k |-> "confidence", v |-> Str("medium")])
    @@ ("confidence:low" :> [k |-> "confidence", v |-> Str("low")])
    @@ ("is_biodegradable:true" :> [k |-> "is_biodegradable", v |-> Bool(TRUE)])
    @@ ("is_biodegradable:false" :> [k |-> "is_biodegradable", v |-> Bool(FALSE)])
    @@ ("disposal_advice:Rinse" :> [k |-> "disposal_advice", v |-> Str("Rinse and recycle.")])
    @@ ("primary_category:Recyclable" :> [k |-> "primary_category", v |-> Str("Recyclable")])
    @@ ("secondary_category:plastic bottle" :>
            [k |-> "secondary_category", v |-> Str("plastic bottle")])
    @@ ("biodegradable:non-biodegradable" :>
            [k |-> "biodegradable", v |-> Str("non-biodegradable")])
    @@ ("biodegradable:7" :> [k |-> "biodegradable", v |-> Num(7)])
    @@ ("moisture:dry" :> [k |-> "moisture", v |-> Str("dry")])
    @@ ("moisture:damp" :> [k |-> "moisture", v |-> Str("damp")])
    @@ ("item_name:bottle" :> [k |-> "item_name", v |-> Str("bottle")])

MemberSymbols == DOMAIN MemberTable

IsFence(c) == c \in {"J", "F"}

\* str.strip()
RECURSIVE LStrip(_)
LStrip(t) == IF t # <<>> /\ Head(t) = " " THEN LStrip(Tail(t)) ELSE t

RECURSIVE RStrip(_)
RStrip(t) ==
    IF t # <<>> /\ t[Len(t)] = " " THEN RStrip(SubSeq(t, 1, Len(t) - 1)) ELSE t

Strip(t) == RStrip(LStrip(t))

Min(S) == CHOOSE m \in S : \A o \in S : m <= o

Max(S) == CHOOSE m \in S : \A o \in S : m >= o

\* where t holds '```json', '```', '{' and '}'
JsonMarkers(t) == { i \in 1..Len(t) : t[i] = "J" }

Fences(t) == { i \in 1..Len(t) : IsFence(t[i]) }

OpenBraces(t) == { i \in 1..Len(t) : t[i] = "{" }

CloseBraces(t) == { i \in 1..Len(t) : t[i] = "}" }

\* '```json' in t
HasJsonMarker(t) == JsonMarkers(t) # {}

\* t.split('```json', 1)[1], for a t that holds the marker
AfterFirstMarker(t) == SubSeq(t, Min(JsonMarkers(t)) + 1, Len(t))

\* t.rsplit('```', 1)[0]: what precedes the last fence, all of t without one
BeforeLastFence(t) ==
    IF Fences(t) = {} THEN t
    ELSE SubSeq(t, 1, Max(Fences(t)) - 1)

\* t.split('```')[0]: what precedes the first fence, all of t without one
BeforeFirstFence(t) ==
    IF Fences(t) = {} THEN t
    ELSE SubSeq(t, 1, Min(Fences(t)) - 1)

\* the match without its braces, as group 1 of r'\{(.*)\}' would be
BraceMatch_Inside(t) ==
    LET opens  == OpenBraces(t)
        closes == CloseBraces(t)
    IN  IF opens = {} \/ closes = {} \/ Max(closes) < Min(opens)
        THEN [found |-> FALSE, text |-> <<>>]
        ELSE [found |-> TRUE, text |-> SubSeq(t, Min(opens) + 1, Max(closes) - 1)]

\* re.search(r'\{.*\}', t, re.DOTALL): from the first "{" to the last "}" after it
BraceMatch(t) ==
    LET opens  == OpenBraces(t)
        closes == CloseBraces(t)
    IN  IF opens = {} \/ closes = {} \/ Max(closes) < Min(opens)
        THEN [found |-> FALSE, text |-> <<>>]
        ELSE [found |-> TRUE, text |-> SubSeq(t, Min(opens), Max(closes))]

NoPayload == [k \in {} |-> Num(0)]

\* the object a run of members denotes; a repeated key keeps its last value
RECURSIVE ObjectOf(_)
ObjectOf(ms) ==
    IF ms = <<>> THEN NoPayload
    ELSE LET m == MemberTable[ms[Len(ms)]]
         IN  ObjectOf(SubSeq(ms, 1, Len(ms) - 1)) @@ (m.k :> m.v)

NotSpace(c) == c # " "

\* json.loads(t): white space is insignificant between tokens; the texts that
\* parse are a lone number and an object of members
json_loads(t) ==
    LET u == SelectSeq(t, NotSpace) IN
    IF u = <<"7">> THEN [exc |-> "", kind |-> "int", obj |-> NoPayload]
    ELSE IF /\ Len(u) >= 2 /\ u[1] = "{" /\ u[Len(u)] = "}"
            /\ \A i \in 2..(Len(u) - 1) : u[i] \in MemberSymbols
    THEN [exc |-> "", kind |-> "dict", obj |-> ObjectOf(SubSeq(u, 2, Len(u) - 1))]
    ELSE [exc |-> "JSONDecodeError", kind |-> "", obj |-> NoPayload]

\* /classify (src/app.py 127-129): strip, cut from the first ```json to the
\* last fence, strip again
CleanText(result_text) ==
    LET clean_text == Strip(result_text) IN
    IF HasJsonMarker(clean_text)
    THEN Strip(BeforeLastFence(AfterFirstMarker(clean_text)))
    ELSE clean_text

\* the detailed variant of /classify (src/app.py 246-250, placed after the
\* handler's return and never run): the first ```json block up to the next
\* fence, else what follows the first bare fence up to the next one
ResponseTextDetailed(text) ==
    LET response_text == Strip(text) IN
    IF HasJsonMarker(response_text)
    THEN Strip(BeforeFirstFence(AfterFirstMarker(response_text)))
    ELSE IF Fences(response_text) # {}
    THEN Strip(BeforeFirstFence(
             SubSeq(response_text, Min(Fences(response_text)) + 1,
                    Len(response_text))))
    ELSE response_text

\* classify_waste (src/src/model.py): strip, then the outermost brace pair
JsonMatch(text) == BraceMatch(Strip(text))

(***************************************************************************)
(* Python strings the handler inspects, as their characters.               *)
(***************************************************************************)
Chars ==
    ("Plastic Bottle" :> <<"P", "l", "a", "s", "t", "i", "c", " ", "B", "o", "t", "t", "l", "e">>)
    @@ ("Biodegradable" :> <<"B", "i", "o", "d", "e", "g", "r", "a", "d", "a", "b", "l", "e">>)
    @@ ("Non-biodegradable" :> <<"N", "o", "n", "-", "b", "i", "o", "d", "e", "g", "r", "a", "d", "a", "b", "l", "e">>)
    @@ ("plastic" :> <<"p", "l", "a", "s", "t", "i", "c">>)
    @@ ("paper" :> <<"p", "a", "p", "e", "r">>)
    @@ ("metal" :> <<"m", "e", "t", "a", "l">>)
    @@ ("glass" :> <<"g", "l", "a", "s", "s">>)
    @@ ("biodegradable" :> <<"b", "i", "o", "d", "e", "g", "r", "a", "d", "a", "b", "l", "e">>)
    @@ ("hazardous" :> <<"h", "a", "z", "a", "r", "d", "o", "u", "s">>)
    @@ ("e-waste" :> <<"e", "-", "w", "a", "s", "t", "e">>)
    @@ ("non-biodegradable" :> <<"n", "o", "n", "-", "b", "i", "o", "d", "e", "g", "r", "a", "d", "a", "b", "l", "e">>)
    @@ ("" :> <<>>)
    @@ (MixedWaste :>
            <<"p", "l", "a", "s", "t", "i", "c", " ", "p", "a", "p", "e", "r", " ", "m", "e", "t", "a", "l", " ", "g", "l", "a", "s", "s", " ",
              "b", "i", "o", "d", "e", "g", "r", "a", "d", "a", "b", "l", "e", " ", 
              "h", "a", "z", "a", "r", "d", "o", "u", "s", " ", "e", "-", "w", "a", "s", "t", "e">>)

\* str.lower(), character by character
LowerChar(c) ==
    CASE c = "P" -> "p"
      [] c = "B" -> "b"
      [] c = "N" -> "n"
      [] OTHER   -> c

LowerChars(cs) == [i \in 1..Len(cs) |-> LowerChar(cs[i])]

\* needle in hay
Contains(needle, hay) ==
    \E i \in 0..(Len(hay) - Len(needle)) :
        SubSeq(hay, i + 1, i + Len(needle)) = needle

\* int(v) on a JSON value: an integer is itself, a string that is no decimal
\* literal raises ValueError (no string of MemberTable is a literal)
PyInt(v) ==
    IF v.ty = "int" THEN [exc |-> "", n |-> v.n] ELSE [exc |-> "ValueError", n |-> 0]

(***************************************************************************)
(* /classify: from the reply text to the response (src/app.py 121-199).    *)
(***************************************************************************)
\* secondary_categories, in insertion order
SecondaryKeys == <<"plastic", "paper", "metal", "glass", "biodegradable", "hazardous", "e-waste">>

SecondaryLabels ==
    <<"Recyclable (paper)", "Recyclable (plastic)", "Recyclable (glass)",
      "Recyclable (metal)", "Compostable", "Special Disposal", "Electronic Waste">>

\* the generator with its test turned round: the first keyword found in the category
SecondaryCategory_FirstFound(primary_category) ==
    LET low == LowerChars(Chars[primary_category])
        hit == { i \in 1..Len(SecondaryKeys) :
                    Contains(LowerChars(Chars[SecondaryKeys[i]]), low) }
    IN  IF hit = {} THEN "General Waste" ELSE SecondaryLabels[Min(hit)]

\* next((v for k, v in ... if k.lower() not in primary_category.lower()), 'General Waste')
SecondaryCategory(primary_category) ==
    LET low  == LowerChars(Chars[primary_category])
        miss == { i \in 1..Len(SecondaryKeys) :
                    ~Contains(LowerChars(Chars[SecondaryKeys[i]]), low) }
    IN  IF miss = {} THEN "General Waste" ELSE SecondaryLabels[Min(miss)]

\* max(0, min(100, n))
Clamp100(n) == IF n < 0 THEN 0 ELSE IF n > 100 THEN 100 ELSE n

\* the test without lower(): 'biodegradable' in primary_category
IsBiodegradable_CaseSensitive(primary_category) ==
    Contains(Chars["biodegradable"], Chars[primary_category])

\* 'biodegradable' in primary_category.lower()
IsBiodegradable(primary_category) ==
    Contains(Chars["biodegradable"], LowerChars(Chars[primary_category]))

\* secondary_confidence = max(0, min(100, confidence - 10))
SecondaryConfidence(confidence) == Clamp100(confidence - 10)

InvalidResponse ==
    [success |-> FALSE, error |-> <<"Invalid response from the classification service">>,
     details |-> <<"JSONDecodeError">>]

ClassificationError(type, details) ==
    [success |-> FALSE, error |-> <<"Error during classification">>,
     details |-> <<details>>, type |-> type]

MissingFieldsMessage == "Missing required fields in the response"

DefaultAdvice == "No specific disposal advice available."

\* all(key in result for key in ['category', 'confidence'])
HasRequiredFields(result) == {"category", "confidence"} \subseteq DOMAIN result

\* lines 140-174, for a parsed mapping that has the required fields
ResponseData(result) ==
    LET primary_category == result["category"]
        conf             == PyInt(result["confidence"])
    IN  IF conf.exc # "" THEN ClassificationError(conf.exc, "invalid literal for int()")
        ELSE IF primary_category.ty # "str"
        THEN ClassificationError("AttributeError", "object has no attribute 'lower'")
        ELSE LET secondary_category == SecondaryCategory(primary_category.s) IN
             [success              |-> TRUE,
              primary_category     |-> primary_category.s,
              primary_confidence   |-> conf.n,
              secondary_category   |-> secondary_category,
              secondary_confidence |-> SecondaryConfidence(conf.n),
              combined_category    |-> <<primary_category.s, " / ", secondary_category>>,
              is_biodegradable     |-> IsBiodegradable(primary_category.s),
              disposal_advice      |->
                  IF "disposal_advice" \in DOMAIN result
                  THEN result["disposal_advice"].s ELSE DefaultAdvice]

\* lines 125-199: clean the text, parse it, check the fields, build the response
ClassifyReply(result_text) ==
    LET parsed == json_loads(CleanText(result_text)) IN
    IF parsed.exc = "JSONDecodeError" THEN InvalidResponse
    ELSE IF parsed.kind # "dict"
    THEN ClassificationError("TypeError", "argument of type 'int' is not iterable")
    ELSE IF ~HasRequiredFields(parsed.obj)
    THEN ClassificationError("ValueError", MissingFieldsMessage)
    ELSE ResponseData(parsed.obj)

(***************************************************************************)
(* WasteClassifier.classify_waste: from the reply text to the result       *)
(* (src/src/model.py 168-256).                                             *)
(***************************************************************************)
\* str.lower() on the whole strings classify_waste normalises
LowerStr(s) ==
    CASE s = "Recyclable" -> "recyclable"
      [] s = "Biodegradable" -> "biodegradable"
      [] s = "Non-biodegradable" -> "non-biodegradable"
      [] s = "High" -> "high"
      [] OTHER -> s

\* str.capitalize()
Capitalize(s) == IF s = "recyclable" THEN "Recyclable" ELSE s

\* self.waste_categories: description and advice by biodegradability and moisture
WasteCategories ==
    ("biodegradable" :>
        (("wet" :> [description |-> "Biodegradable Wet Waste", advice |-> "compost"])
         @@ ("dry" :> [description |-> "Biodegradable Dry Waste", advice |-> "compost or green bin"])))
    @@ ("non-biodegradable" :>
        (("wet" :> [description |-> "Non-Biodegradable Wet Waste", advice |-> "dry before disposal"])
         @@ ("dry" :> [description |-> "Non-Biodegradable Dry Waste", advice |-> "recycle if possible"])))

RequiredKeys ==
    {"primary_category", "secondary_category", "biodegradable", "moisture",
     "item_name", "confidence", "disposal_advice"}

\* an exception on its way out of a block; message is str(e), in parts
Raised(exc, message) == [raised |-> TRUE, exc |-> exc, message |-> message]

IsRaised(r) == "raised" \in DOMAIN r

\* no exception: the block ran to its end with this text
Passed(text) == [passed |-> TRUE, text |-> text]

\* the inner handler (232-241): JSONDecodeError, KeyError and ValueError
ProcessingError(cause) ==
    [success |-> FALSE, error |-> <<"Error processing model response: ">> \o cause]

InnerCaught == {"JSONDecodeError", "KeyError", "ValueError"}

InnerHandler(r) ==
    IF IsRaised(r) /\ r.exc \in InnerCaught THEN ProcessingError(r.message) ELSE r

\* the keys of a mapping, as its repr shows them
RECURSIVE KeysShown(_)
KeysShown(keys) ==
    IF keys = {} THEN <<>>
    ELSE LET k == CHOOSE x \in keys : TRUE IN <<k>> \o KeysShown(keys \ {k})

QuotaMessage == "429 You exceeded your current quota"

BlockedMessage == "Empty or blocked response from the model"

\* the words the outer handler looks for in str(e).lower(), by part of the message
WordsIn(part) ==
    CASE part = QuotaMessage -> {"quota"}
      [] part = BlockedMessage -> {"blocked"}
      [] part = "Invalid image input: " -> {"image", "invalid"}
      [] part = "Error reading image data: " -> {"image"}
      [] part = "Image not found: " -> {"image"}
      [] OTHER -> {}

\* lines 246-251: the hint appended to the message
Hint(cause) ==
    LET words == UNION { WordsIn(cause[i]) : i \in DOMAIN cause } IN
    IF "quota" \in words THEN <<"You may have exceeded your API quota.">>
    ELSE IF {"image", "invalid"} \subseteq words
    THEN <<"The provided image might be corrupted or in an unsupported format.">>
    ELSE IF "blocked" \in words THEN <<"The content was blocked by the safety filters.">>
    ELSE <<>>

\* the outer handler letting the exception go on
ClassifyingError_Reraised(cause) == Raised("Exception", cause)

\* the outer handler (243-256): every other exception
ClassifyingError(cause) ==
    [success |-> FALSE, error |-> <<"Error classifying image: ">> \o cause \o Hint(cause)]

OuterHandler(r) == IF IsRaised(r) THEN ClassifyingError(r.message) ELSE r

NoJsonMessage == "Could not parse model response as JSON"

\* f"Missing required keys in response: {result}": the mapping follows
MissingKeysMessage == "Missing required keys in response: "

\* lines 202-230, for a parsed mapping that has the required keys
WasteResult(result) ==
    IF \E k \in {"biodegradable", "moisture", "primary_category", "secondary_category",
                 "confidence"} : result[k].ty # "str"
    THEN Raised("AttributeError", <<"'int' object has no attribute 'lower'">>)
    ELSE
    LET bio_key      == LowerStr(result["biodegradable"].s)
        moisture_key == LowerStr(result["moisture"].s)
        primary_category == LowerStr(result["primary_category"].s)
        known == /\ bio_key \in DOMAIN WasteCategories
                 /\ moisture_key \in DOMAIN WasteCategories[bio_key]
        category_info ==
            IF known THEN WasteCategories[bio_key][moisture_key]
            ELSE [description |-> Capitalize(primary_category),
                  advice |-> result["disposal_advice"].s]
    IN  [success            |-> TRUE,
         item_name          |-> result["item_name"].s,
         primary_category   |-> primary_category,
         secondary_category |-> LowerStr(result["secondary_category"].s),
         biodegradable      |-> bio_key,
         moisture           |-> moisture_key,
         confidence         |-> LowerStr(result["confidence"].s),
         disposal_advice    |-> result["disposal_advice"].s,
         category           |-> category_info.description,
         advice             |-> category_info.advice]

\* lines 118-155: the bytes of a file-like object or of the file at a path
ReadImage(image_input) ==
    CASE image_input.kind = "stream" ->
            IF image_input.ok THEN Passed(<<>>)
            ELSE Raised("ValueError", <<"Error reading image data: ", "read failed">>)
      [] image_input.kind = "path" ->
            IF image_input.ok THEN Passed(<<>>)
            ELSE Raised("ValueError", <<"Invalid image input: ", "Image not found: ">>)
      [] OTHER ->
            Raised("ValueError", <<"Invalid image input: ", "TypeError">>)

\* lines 158-176: generate_content, then the blank check on response.text;
\* whatever is raised leaves as RuntimeError
GenerateText(outcome) ==
    IF outcome.exc # ""
    THEN Raised("RuntimeError", <<"Error generating content: ", outcome.message>>)
    ELSE IF Strip(outcome.text) = <<>>
    THEN Raised("RuntimeError", <<"Error generating content: ", BlockedMessage>>)
    ELSE Passed(outcome.text)

\* lines 179-230: the brace search, the parse, the key check, the result
ParseReply(text) ==
    LET json_match == JsonMatch(text) IN
    IF ~json_match.found THEN Raised("ValueError", <<NoJsonMessage>>)
    ELSE LET parsed == json_loads(json_match.text) IN
         IF parsed.exc = "JSONDecodeError"
         THEN Raised("JSONDecodeError", <<"JSONDecodeError">>)
         ELSE IF ~(RequiredKeys \subseteq DOMAIN parsed.obj)
         THEN Raised("ValueError", <<MissingKeysMessage>> \o KeysShown(DOMAIN parsed.obj))
         ELSE WasteResult(parsed.obj)

\* lines 71-256: the three blocks inside the two handlers
classify_waste(image_input, outcome) ==
    LET read == ReadImage(image_input) IN
    IF IsRaised(read) THEN OuterHandler(read)
    ELSE LET generated == GenerateText(outcome) IN
         IF IsRaised(generated) THEN OuterHandler(generated)
         ELSE OuterHandler(InnerHandler(ParseReply(generated.text)))

\* classify_waste on a readable stream when the model replies with text
ClassifyWasteReply(text) ==
    classify_waste([kind |-> "stream", ok |-> TRUE], [exc |-> "", message |-> "", text |-> text])

(***************************************************************************)
(* format_classification_result (src/src/prediction.py 125-187) and the    *)
(* mapping app.py prepares for it (src/app.py 329-345).  Icons are written *)
(* by name, "(recycle)" for the recycling sign.                            *)
(***************************************************************************)
\* str.title() on the strings the formatter meets
Title(s) ==
    CASE s = "Unknown item" -> "Unknown Item"
      [] s = "plastic bottle" -> "Plastic Bottle"
      [] s = "recyclable" -> "Recyclable"
      [] s = "general" -> "General"
      [] s = "waste" -> "Waste"
      [] s = "biodegradable" -> "Biodegradable"
      [] s = "non-biodegradable" -> "Non-Biodegradable"
      [] s = "unknown" -> "Unknown"
      [] s = "wet" -> "Wet"
      [] s = "dry" -> "Dry"
      [] OTHER -> s

\* result.get(key, default)
PyGet(result, key, default) == IF key \in DOMAIN result THEN result[key] ELSE default

\* the truth value of a Python value
Truthy(v) == IF v.ty = "str" THEN v.s # "" ELSE v.n # 0

\* confidence_map.get(confidence, ...)
ConfidenceMap(confidence) ==
    CASE confidence = "high" -> "(blue) High"
      [] confidence = "medium" -> "(green) Medium"
      [] confidence = "low" -> "(orange) Low"
      [] OTHER -> "(orange) Low"

\* category_emojis.get(primary_category, ...)
CategoryEmoji(primary_category) ==
    CASE primary_category = "organic" -> "(seedling)"
      [] primary_category = "recyclable" -> "(recycle)"
      [] primary_category = "hazardous" -> "(warning)"
      [] primary_category = "general" -> "(bin)"
      [] OTHER -> "(bin)"

NoAttributeLower == <<"'int' object has no attribute 'lower'">>

format_classification_result(result) ==
    IF ~Truthy(PyGet(result, "success", Bool(FALSE)))
    THEN [success |-> FALSE,
          error |-> PyGet(result, "error", Str("Unknown error occurred"))]
    ELSE
    LET confidence == PyGet(result, "confidence", Str("low"))
        primary    == PyGet(result, "primary_category", Str("general"))
        secondary  == PyGet(result, "secondary_category", Str("waste"))
        bio        == PyGet(result, "biodegradable", Str(""))
        bio_shown  == PyGet(result, "biodegradable", Str("unknown"))
        moisture   == PyGet(result, "moisture", Str("unknown"))
        item_name  == PyGet(result, "item_name", Str("Unknown item"))
    IN  IF confidence.ty # "str" THEN Raised("AttributeError", NoAttributeLower)
        ELSE IF primary.ty # "str" THEN Raised("AttributeError", NoAttributeLower)
        ELSE IF secondary.ty # "str"
        THEN Raised("AttributeError", <<"'int' object has no attribute 'title'">>)
        ELSE IF bio.ty # "str"
        THEN Raised("TypeError", <<"argument of type 'int' is not iterable">>)
        ELSE IF item_name.ty # "str" \/ moisture.ty # "str"
        THEN Raised("AttributeError", <<"'int' object has no attribute 'title'">>)
        ELSE
        LET primary_category == LowerStr(primary.s)
            moisture_emoji   ==
                IF "moisture" \in DOMAIN result /\ result["moisture"] = Str("wet")
                THEN "(droplet)" ELSE "(sun)"
            bio_emoji        ==
                IF Contains(Chars["biodegradable"], Chars[bio.s])
                THEN "(recycle)" ELSE "(no entry)"
        IN  [success            |-> TRUE,
             item_name          |-> Title(item_name.s),
             primary_category   |->
                 <<CategoryEmoji(primary_category), " ", Title(primary_category)>>,
             secondary_category |-> <<"(package)", " ", Title(secondary.s)>>,
             biodegradable      |-> <<bio_emoji, " ", Title(bio_shown.s)>>,
             moisture           |-> <<moisture_emoji, " ", Title(moisture.s)>>,
             confidence         |-> ConfidenceMap(LowerStr(confidence.s)),
             advice             |->
                 PyGet(result, "disposal_advice",
                       PyGet(result, "advice", Str("No specific advice available."))),
             raw_data           |-> result]

\* line 341: 'secondary_confidence': max(0, min(100, confidence - 5))
SecondaryConfidenceDetailed(confidence) == Clamp100(confidence - 5)

\* 'high' if confidence > 70 else 'medium' if confidence > 30 else 'low'
ConfidenceBucket(confidence) ==
    IF confidence > 70 THEN "high" ELSE IF confidence > 30 THEN "medium" ELSE "low"

\* f"{result.get('material_type', 'Waste').title()}: {result.get('item_name', 'Item')}"
\* for a result without material_type
CombinedCategory(result) ==
    IF "item_name" \in DOMAIN result /\ result["item_name"] = Str("plastic bottle")
    THEN Str("Waste: plastic bottle") ELSE Str("Waste: Item")

\* formatted_for_prediction, from the payload and the numeric confidence
FormattedForPrediction(result, confidence) ==
    LET is_biodegradable == Truthy(PyGet(result, "is_biodegradable", Bool(FALSE)))
        moisture         == PyGet(result, "moisture", Str("dry"))
    IN  ("success" :> Bool(TRUE))
        @@ ("item_name" :> PyGet(result, "item_name", Str("Unknown Item")))
        @@ ("features" :> PyGet(result, "features", Str("No features identified")))
        @@ ("confidence" :> Str(ConfidenceBucket(confidence)))
        @@ ("biodegradable" :>
                Str(IF is_biodegradable THEN "biodegradable" ELSE "non-biodegradable"))
        @@ ("moisture" :> moisture)
        @@ ("advice" :> PyGet(result, "disposal_advice", Str("No specific advice available.")))
        @@ ("primary_category" :>
                Str(IF is_biodegradable THEN "Biodegradable" ELSE "Non-biodegradable"))
        @@ ("primary_confidence" :> Num(confidence))
        @@ ("secondary_category" :> Str(IF moisture = Str("wet") THEN "Wet" ELSE "Dry"))
        @@ ("secondary_confidence" :> Num(SecondaryConfidenceDetailed(confidence)))
        @@ ("combined_category" :> CombinedCategory(result))
        @@ ("is_biodegradable" :> PyGet(result, "is_biodegradable", Bool(FALSE)))
        @@ ("disposal_advice" :>
                PyGet(result, "disposal_advice",
                      Str("No specific disposal advice available for this item.")))

(***************************************************************************)
(* WasteClassifier() and get_classifier (src/src/model.py 10-37,           *)
(* src/app.py 18-29).                                                      *)
(***************************************************************************)
ModelNames == <<"gemini-2.5-flash", "gemini-2.0-flash", "gemini-pro-vision">>

None == [made |-> FALSE, model_name |-> "", model |-> ""]

\* the process environment: GEMINI_API_KEY set or not, and the model names
\* genai.GenerativeModel refuses
Envs ==
    { [api_key |-> FALSE, broken |-> {}] }
    \cup { [api_key |-> TRUE, broken |-> b] :
             b \in SUBSET {ModelNames[i] : i \in 1..Len(ModelNames)} }

\* WasteClassifier.__init__: the handle, or made = FALSE when it raises
WasteClassifier(e) ==
    IF ~e.api_key THEN None
    ELSE IF ModelNames[1] \notin e.broken
    THEN [made |-> TRUE, model_name |-> ModelNames[1], model |-> ModelNames[1]]
    ELSE IF ModelNames[2] \notin e.broken
    THEN [made |-> TRUE, model_name |-> ModelNames[2], model |-> ModelNames[2]]
    ELSE IF ModelNames[3] \notin e.broken
    THEN [made |-> TRUE, model_name |-> ModelNames[2], model |-> ModelNames[3]]
    ELSE None

\* get_classifier(): the handle, or None when the constructor raised
get_classifier(e) == WasteClassifier(e)

(***************************************************************************)
(* The requests and replies the handler is driven with.                    *)
(***************************************************************************)
MaxRequests == 2

NoRequest == [has_file |-> FALSE, filename |-> "", file |-> AbsentFile]

\* a POST without a file part, with an unnamed part, or with an uploaded file
Requests ==
    { NoRequest, [has_file |-> TRUE, filename |-> "", file |-> AbsentFile] }
    \cup { [has_file |-> TRUE, filename |-> "upload.img", file |-> f] : f \in RealImages }

\* the objects a reply can carry
Bodies ==
    { <<"category:Plastic Bottle", "confidence:85">>,
      <<"category:Plastic Bottle", "confidence:150">>,
      <<"category:Plastic Bottle", "confidence:-5">>,
      <<"category:Plastic Bottle", "confidence:5">>,
      <<"category:Plastic Bottle", "confidence:high">>,
      <<"category:Plastic Bottle", "confidence:medium">>,
      <<"category:Plastic Bottle", "confidence:low">>,
      <<"category:Plastic Bottle", "confidence:85", "is_biodegradable:true">>,
      <<"category:Biodegradable", "confidence:85", "is_biodegradable:false">>,
      <<"category:mixed", "confidence:85">>,
      <<"category:Biodegradable", "confidence:85">>,
      <<"category:Non-biodegradable", "confidence:85", "disposal_advice:Rinse">>,
      <<"category:7", "confidence:85">>,
      <<"category:Plastic Bottle">>,
      <<"confidence:85">>,
      <<>> }

\* the ways the model dresses an object up
Wrap(style, body) ==
    LET obj == <<"{">> \o body \o <<"}">> IN
    CASE style = "bare"   -> obj
      [] style = "fenced" -> <<"J", " ">> \o obj \o <<" ", "F">>
      [] style = "prose and fence" -> <<"x", " ", "J">> \o obj \o <<"F">>
      [] style = "two fences" -> <<"J">> \o obj \o <<"F", "x", "F">>
      [] style = "prose" -> <<"x", " ">> \o obj \o <<" ", "x">>

Styles == {"bare", "fenced", "prose and fence", "two fences", "prose"}

Replies ==
    { Wrap(st, b) : st \in Styles, b \in Bodies } \cup { <<"x">>, <<"7">>, <<" ">> }

NoReply == [exc |-> "", text |-> <<>>]

NoResponse == [status |-> 0, body |-> [success |-> FALSE]]

(***************************************************************************)
(* Spec: the /classify handler (src/app.py 41-437), one request at a time. *)
(***************************************************************************)
\* the value of the variables of the specifications that are not running
Off == [off |-> TRUE]

VIdle == v_in = Off /\ v_out = Off /\ v_pc = "off"

EIdle ==
    /\ e_text = Off /\ e_pc = "off" /\ e_clean = Off
    /\ e_resp = Off /\ e_match = Off /\ e_result = Off

WIdle == w_in = Off /\ w_reply = Off /\ w_out = Off /\ w_pc = "off"

FIdle == f_result = Off /\ f_in = Off /\ f_out = Off /\ f_pc = "off"

Init ==
    /\ VIdle
    /\ EIdle
    /\ WIdle
    /\ FIdle
    /\ env \in Envs
    /\ classifier_global = get_classifier(env)
    /\ constructions = 1
    /\ served = 0
    /\ pc = "idle"
    /\ request = NoRequest
    /\ file_data = NoBuffer
    /\ validation = NoOutcome
    /\ classifier = None
    /\ model_input = NoBuffer
    /\ reply = NoReply
    /\ response = NoResponse

Respond(status, body) ==
    /\ response' = [status |-> status, body |-> body]
    /\ pc' = "responded"

\* the handler going on to the classifier whatever validate_image said
Receive_IgnoresVerdict(req) ==
    /\ pc = "idle" /\ served < MaxRequests
    /\ request' = req
    /\ IF ~req.has_file
       THEN /\ Respond(400, [success |-> FALSE, error |-> <<"No file part in the request">>])
            /\ UNCHANGED <<file_data, validation>>
       ELSE IF req.filename = ""
       THEN /\ Respond(400, [success |-> FALSE, error |-> <<"No selected file">>])
            /\ UNCHANGED <<file_data, validation>>
       ELSE LET result == validate_image([kind |-> "stream", file |-> req.file,
                                           ext |-> "", exists |-> TRUE])
            IN  /\ file_data' = RawBytes(req.file)
                /\ validation' = result
                /\ pc' = "validated" /\ UNCHANGED response
    /\ UNCHANGED <<env, classifier_global, constructions, served, classifier,
                   model_input, reply>>

\* lines 43-77: the file part, the filename, file.read(), validate_image
Receive(req) ==
    /\ pc = "idle" /\ served < MaxRequests
    /\ request' = req
    /\ IF ~req.has_file
       THEN /\ Respond(400, [success |-> FALSE, error |-> <<"No file part in the request">>])
            /\ UNCHANGED <<file_data, validation>>
       ELSE IF req.filename = ""
       THEN /\ Respond(400, [success |-> FALSE, error |-> <<"No selected file">>])
            /\ UNCHANGED <<file_data, validation>>
       ELSE LET result == validate_image([kind |-> "stream", file |-> req.file,
                                           ext |-> "", exists |-> TRUE])
            IN  /\ file_data' = RawBytes(req.file)
                /\ validation' = result
                /\ IF ~result.valid
                   THEN Respond(400, [success |-> FALSE,
                                      error |-> <<"Invalid image: ", result.reason>>])
                   ELSE pc' = "validated" /\ UNCHANGED response
    /\ UNCHANGED <<env, classifier_global, constructions, served, classifier,
                   model_input, reply>>

\* lines 79-85: a classifier of the request's own
GetClassifier ==
    /\ pc = "validated"
    /\ classifier' = get_classifier(env)
    /\ constructions' = constructions + 1
    /\ IF ~classifier'.made
       THEN Respond(500, [success |-> FALSE, error |-> <<"Failed to initialize classifier">>])
       ELSE pc' = "ready" /\ UNCHANGED response
    /\ UNCHANGED <<env, classifier_global, served, request, file_data, validation,
                   model_input, reply>>

\* lines 92-121: generate_content on io.BytesIO(file_data), then response.text; either
\* may raise (quota, network, blocked reply)
Generate(r) ==
    /\ pc = "ready"
    /\ model_input' = file_data
    /\ reply' = r
    /\ IF r.exc # ""
       THEN Respond(500, ClassificationError(r.exc, "provider error"))
       ELSE pc' = "replied" /\ UNCHANGED response
    /\ UNCHANGED <<env, classifier_global, constructions, served, request, file_data,
                   validation, classifier>>

\* lines 125-199: parse the reply and answer
Answer ==
    /\ pc = "replied"
    /\ LET body == ClassifyReply(reply.text)
       IN  Respond(IF body.success THEN 200 ELSE 500, body)
    /\ UNCHANGED <<env, classifier_global, constructions, served, request, file_data,
                   validation, classifier, model_input, reply>>

\* the handler clearing the module-level classifier on its way out
Return_DropsHandle ==
    /\ pc = "responded"
    /\ pc' = "idle"
    /\ served' = served + 1
    /\ request' = NoRequest /\ file_data' = NoBuffer /\ validation' = NoOutcome
    /\ classifier' = None /\ model_input' = NoBuffer /\ reply' = NoReply
    /\ response' = NoResponse
    /\ classifier_global' = None
    /\ UNCHANGED <<env, constructions>>

\* the handler returns; its locals are gone
Return ==
    /\ pc = "responded"
    /\ pc' = "idle"
    /\ served' = served + 1
    /\ request' = NoRequest /\ file_data' = NoBuffer /\ validation' = NoOutcome
    /\ classifier' = None /\ model_input' = NoBuffer /\ reply' = NoReply
    /\ response' = NoResponse
    /\ UNCHANGED <<env, classifier_global, constructions>>

ModelOutcomes ==
    { [exc |-> "", text |-> t] : t \in Replies }
    \cup { [exc |-> x, text |-> <<>>] : x \in {"ResourceExhausted", "ValueError"} }

Next ==
    \/ (\E req \in Requests : Receive(req)) /\ UNCHANGED <<vvars, evars, wvars, fvars>>
    \/ GetClassifier /\ UNCHANGED <<vvars, evars, wvars, fvars>>
    \/ (\E r \in ModelOutcomes : Generate(r)) /\ UNCHANGED <<vvars, evars, wvars, fvars>>
    \/ Answer /\ UNCHANGED <<vvars, evars, wvars, fvars>>
    \/ Return /\ UNCHANGED <<vvars, evars, wvars, fvars>>

Spec == Init /\ [][Next]_vars

PIdle ==
    /\ env = Off /\ classifier_global = Off /\ constructions = 0 /\ served = 0
    /\ pc = "off" /\ request = Off /\ file_data = Off /\ validation = Off
    /\ classifier = Off /\ model_input = Off /\ reply = Off /\ response = Off

(***************************************************************************)
(* SpecValidate: validate_image on every input.                            *)
(***************************************************************************)
VInit ==
    /\ v_in \in ImageInputs
    /\ v_out = Off
    /\ v_pc = "ready"
    /\ EIdle
    /\ PIdle
    /\ WIdle
    /\ FIdle

VCall ==
    /\ v_pc = "ready"
    /\ v_out' = validate_image(v_in)
    /\ v_pc' = "returned"
    /\ UNCHANGED <<v_in, evars, pvars, wvars, fvars>>

VNext == VCall

SpecValidate == VInit /\ [][VNext]_vars

(***************************************************************************)
(* SpecStages: validate_image and classify_waste, each called once on an   *)
(* input of its own; a behaviour runs one of the two.                      *)
(***************************************************************************)
\* image_input: a file-like object whose read works or fails, a path that
\* exists or not, anything else
WasteInputs ==
    { [kind |-> k, ok |-> b] : k \in {"stream", "path"}, b \in BOOLEAN }
    \cup { [kind |-> "other", ok |-> FALSE] }

WasteBodies ==
    { <<"primary_category:Recyclable", "secondary_category:plastic bottle",
        "biodegradable:non-biodegradable", "moisture:dry", "item_name:bottle",
        "confidence:high", "disposal_advice:Rinse">>,
      <<"primary_category:Recyclable", "secondary_category:plastic bottle",
        "biodegradable:non-biodegradable", "moisture:damp", "item_name:bottle",
        "confidence:high", "disposal_advice:Rinse">>,
      <<"primary_category:Recyclable", "secondary_category:plastic bottle",
        "biodegradable:7", "moisture:dry", "item_name:bottle",
        "confidence:high", "disposal_advice:Rinse">>,
      <<"primary_category:Recyclable", "secondary_category:plastic bottle",
        "biodegradable:non-biodegradable", "moisture:dry", "item_name:bottle",
        "confidence:85", "disposal_advice:Rinse">>,
      <<"primary_category:Recyclable", "secondary_category:plastic bottle",
        "biodegradable:non-biodegradable", "moisture:dry", "item_name:bottle",
        "confidence:high">>,
      <<>> }

WasteReplies ==
    { Wrap(st, b) : st \in Styles, b \in WasteBodies }
    \cup { <<>>, <<" ">>, <<"x">>, <<"{", "x", "}">> }

\* generate_content and response.text: a text, or an exception (quota; the
\* ValueError of response.text on a reply without parts)
WasteOutcomes ==
    { [exc |-> "", message |-> "", text |-> t] : t \in WasteReplies }
    \cup { [exc |-> "ResourceExhausted", message |-> QuotaMessage, text |-> <<>>],
           [exc |-> "ValueError", message |-> "response.text requires a valid Part",
            text |-> <<>>] }

StagesInit ==
    /\ \/ /\ v_in \in ImageInputs /\ v_out = Off /\ v_pc = "ready"
          /\ WIdle
       \/ /\ VIdle
          /\ w_in \in WasteInputs /\ w_reply \in WasteOutcomes
          /\ w_out = Off /\ w_pc = "ready"
    /\ EIdle
    /\ PIdle
    /\ FIdle

WCall ==
    /\ w_pc = "ready"
    /\ w_out' = classify_waste(w_in, w_reply)
    /\ w_pc' = "returned"
    /\ UNCHANGED <<w_in, w_reply, vvars, evars, pvars, fvars>>

StagesNext == VCall \/ WCall

SpecStages == StagesInit /\ [][StagesNext]_vars

(***************************************************************************)
(* SpecFormat: format_classification_result on a mapping a caller hands    *)
(* it, or on the mapping app.py 329-345 prepares from a payload and its    *)
(* numeric confidence.                                                     *)
(***************************************************************************)
\* the values a caller's mapping may hold under each key; any key may be absent
FormatKeys ==
    <<"success", "error", "confidence", "item_name", "primary_category",
      "secondary_category", "biodegradable", "moisture", "disposal_advice", "advice">>

FormatOptions ==
    [success            |-> {Bool(TRUE), Bool(FALSE)},
     error              |-> {Str("Error classifying image: ")},
     confidence         |-> {Str("high"), Str("medium"), Str("low"), Str("High"), Num(85)},
     item_name          |-> {Str("plastic bottle")},
     primary_category   |-> {Str("recyclable"), Str("Biodegradable")},
     secondary_category |-> {Str("plastic bottle")},
     biodegradable      |-> {Str("biodegradable"), Str("non-biodegradable")},
     moisture           |-> {Str("wet"), Str("dry")},
     disposal_advice    |-> {Str("Rinse and recycle.")},
     advice             |-> {Str("recycle if possible")}]

\* the mappings over the first n keys of a list, each key absent or with one of its values
RECURSIVE MappingsOver(_, _, _)
MappingsOver(keys, options, n) ==
    IF n = 0 THEN {NoPayload}
    ELSE LET rest == MappingsOver(keys, options, n - 1)
         IN  rest \cup { m @@ (keys[n] :> v) : m \in rest, v \in options[keys[n]] }

FormatInputs == MappingsOver(FormatKeys, FormatOptions, Len(FormatKeys))

\* the payload fields lines 330-345 read
PayloadKeys == <<"item_name", "is_biodegradable", "moisture", "disposal_advice">>

PayloadOptions ==
    [item_name        |-> {Str("plastic bottle")},
     is_biodegradable |-> {Bool(TRUE), Bool(FALSE)},
     moisture         |-> {Str("wet"), Str("dry")},
     disposal_advice  |-> {Str("Rinse and recycle.")}]

\* numeric confidences on and around the bucket boundaries
Confidences == {0, 29, 30, 31, 69, 70, 71, 100}

PreparedInputs ==
    { [result |-> r, confidence |-> c] :
        r \in MappingsOver(PayloadKeys, PayloadOptions, Len(PayloadKeys)),
        c \in Confidences }

FInit ==
    /\ \/ f_pc = "call" /\ f_result = Off /\ f_in \in FormatInputs
       \/ f_pc = "prepare" /\ f_result \in PreparedInputs /\ f_in = Off
    /\ f_out = Off
    /\ VIdle
    /\ EIdle
    /\ PIdle
    /\ WIdle

\* app.py 329-345
FPrepare ==
    /\ f_pc = "prepare"
    /\ f_in' = FormattedForPrediction(f_result.result, f_result.confidence)
    /\ f_pc' = "call"
    /\ UNCHANGED <<f_result, f_out, vvars, evars, pvars, wvars>>

\* the call (app.py 351, or any other caller)
FFormat ==
    /\ f_pc = "call"
    /\ f_out' = format_classification_result(f_in)
    /\ f_pc' = "formatted"
    /\ UNCHANGED <<f_result, f_in, vvars, evars, pvars, wvars>>

FNext == FPrepare \/ FFormat

SpecFormat == FInit /\ [][FNext]_vars

(***************************************************************************)
(* SpecExtract: both extractors on every text of at most MaxLen symbols.   *)
(***************************************************************************)
MaxLen == 5

Alphabet == {"J", "F", "{", "}", " ", "x", "7", "category:Plastic Bottle", "confidence:85"}

Texts == UNION { [1..n -> Alphabet] : n \in 0..MaxLen }

EInit ==
    /\ e_text \in Texts
    /\ e_pc = "ready" /\ e_clean = Off
    /\ e_resp = Off /\ e_match = Off /\ e_result = Off
    /\ VIdle
    /\ PIdle
    /\ WIdle
    /\ FIdle

\* /classify on the text
EClassify ==
    /\ e_pc = "ready"
    /\ e_clean' = CleanText(e_text)
    /\ e_resp' = ClassifyReply(e_text)
    /\ e_pc' = "classified"
    /\ UNCHANGED <<e_text, e_match, e_result, vvars, pvars, wvars, fvars>>

\* classify_waste on the text
EClassifyWaste ==
    /\ e_pc = "classified"
    /\ e_match' = JsonMatch(e_text)
    /\ e_result' = ClassifyWasteReply(e_text)
    /\ e_pc' = "done"
    /\ UNCHANGED <<e_text, e_clean, e_resp, vvars, pvars, wvars, fvars>>

ENext == EClassify \/ EClassifyWaste

SpecExtract == EInit /\ [][ENext]_vars

(***************************************************************************)
(* Claims about validate_image on uploaded bytes (SpecValidate).           *)
(***************************************************************************)
Returned == v_pc = "returned"

OnBytes == v_in.kind = "stream"

\* the file decodes: a plugin identifies it, Image.open accepts it and the
\* pixel data loads
Decodes(f) == f.header # "none" /\ ~f.bomb /\ ~f.truncated

\* C2: every non-empty input of at most 5 MiB that decodes as JPEG, PNG or WEBP
\* is accepted, and the buffer returned is a JPEG in mode RGB, whatever the
\* decoded colour mode of the input.
C2_AcceptedIsRgbJpeg ==
    (/\ Returned /\ OnBytes
     /\ v_in.file.size > 0 /\ v_in.file.size <= MaxBytes
     /\ v_in.file.header \in {"JPEG", "PNG", "WEBP"}
     /\ Decodes(v_in.file))
    => (/\ v_out.valid
        /\ v_out.buffer.enc = "JPEG"
        /\ v_out.buffer.mode = "RGB")

\* C3: an input longer than 5 MiB is rejected with the file-too-large reason,
\* whether or not it is an image, and an input of exactly 5 MiB is not rejected
\* for its size.
C3_OversizeRejected ==
    (Returned /\ OnBytes) =>
        /\ v_in.file.size > 5 * 1024 * 1024
              => (~v_out.valid /\ v_out.reason = FileTooLarge)
        /\ v_in.file.size = 5 * 1024 * 1024 => v_out.reason # FileTooLarge

\* C3 witness: a well-formed PNG of 5 MiB + 1 bytes was rejected for its size.
C3_Witness ==
    /\ Returned /\ OnBytes
    /\ v_in.file.size = 5 * 1024 * 1024 + 1
    /\ v_in.file.header = "PNG" /\ Decodes(v_in.file)
    /\ v_out.reason = FileTooLarge

\* the earliest of the four checks that the file fails, in the order empty,
\* oversize, decodable, supported format
FirstFailingCheck(f) ==
    IF f.size = 0 THEN "empty"
    ELSE IF f.size > 5 * 1024 * 1024 THEN "oversize"
    ELSE IF f.header = "none" \/ f.bomb THEN "decodable"
    ELSE IF f.header \notin {"JPEG", "PNG", "WEBP"} THEN "format"
    ELSE "none"

IsPrefixOf(s, t) == Len(s) <= Len(t) /\ SubSeq(t, 1, Len(s)) = s

StepOrder == <<"read", "empty_check", "size_check", "open", "format_check">>

\* C4: the checks run in the order empty, oversize, decodable, supported format
\* and validation stops at the first one that fails: the rejection is the one
\* that check issues, and no step after it has run.
C4_FirstFailingCheckDecides ==
    (Returned /\ OnBytes) =>
        LET c == FirstFailingCheck(v_in.file) IN
        /\ c = "empty" =>
              /\ ~v_out.valid /\ v_out.reason = EmptyFile
              /\ v_out.steps = SubSeq(StepOrder, 1, 2)
        /\ c = "oversize" =>
              /\ ~v_out.valid /\ v_out.reason = FileTooLarge
              /\ v_out.steps = SubSeq(StepOrder, 1, 3)
        /\ c = "decodable" =>
              /\ ~v_out.valid /\ v_out.reason \in {NotValidImage, ErrorProcessing}
              /\ v_out.steps = SubSeq(StepOrder, 1, 4)
        /\ c = "format" =>
              /\ ~v_out.valid /\ v_out.reason = UnsupportedFmt
              /\ v_out.detail = v_in.file.header
              /\ v_out.steps = StepOrder
        /\ c = "none" =>
              /\ IsPrefixOf(StepOrder, v_out.steps)
              /\ v_out.reason \notin {EmptyFile, FileTooLarge, NotValidImage, UnsupportedFmt}

\* C4 witness: an oversize file that is no image was rejected for its size, the
\* earlier of its two failing checks, before any decoding.
C4_Witness ==
    /\ Returned /\ OnBytes
    /\ v_in.file.size > 5 * 1024 * 1024 /\ v_in.file.header = "none"
    /\ v_out.reason = FileTooLarge
    /\ v_out.steps = <<"read", "empty_check", "size_check">>

\* C5: every non-empty input of at most 5 MiB on which image decoding fails is
\* rejected with the not-a-valid-image reason.
C5_DecodeFailureIsNotValidImage ==
    (/\ Returned /\ OnBytes
     /\ v_in.file.size > 0 /\ v_in.file.size <= MaxBytes
     /\ ~Decodes(v_in.file))
    => (~v_out.valid /\ v_out.reason = NotValidImage)

(***************************************************************************)
(* Claims about the /classify request pipeline (Spec).                     *)
(***************************************************************************)
\* C1: the image bytes handed to the model call are the canonical bytes
\* validate_image produced for the same request (the re-encoded JPEG buffer),
\* not the raw uploaded bytes.
C1_ModelGetsCanonicalBytes ==
    (pc \in {"replied", "responded"} /\ model_input # NoBuffer)
        => (model_input = validation.buffer /\ model_input # RawBytes(request.file))

\* the mapping /classify parsed out of a reply text
PayloadOf(text) == json_loads(CleanText(text)).obj

\* C6: a numeric confidence of the payload reaches the result as an integer
\* clamped to [0, 100]: 150 gives 100 and -5 gives 0.
C6_PrimaryConfidenceClamped ==
    (pc = "responded" /\ response.body.success) =>
        LET c == PayloadOf(reply.text)["confidence"].n IN
        /\ response.body.primary_confidence \in 0..100
        /\ c >= 100 => response.body.primary_confidence = 100
        /\ c <= 0 => response.body.primary_confidence = 0
        /\ c \in 0..100 => response.body.primary_confidence = c

(***************************************************************************)
(* Claims about response extraction (SpecExtract).                         *)
(***************************************************************************)
Classified == e_pc \in {"classified", "done"}

\* the fences that follow the first ```json of t
FencesAfterMarker(t) ==
    { k \in 1..Len(t) : k > Min(JsonMarkers(t)) /\ IsFence(t[k]) }

\* the content between the first ```json of t and the next fence after it
FirstFencedBlock(t) ==
    SubSeq(t, Min(JsonMarkers(t)) + 1, Min(FencesAfterMarker(t)) - 1)

\* C7: when the text holds a ```json marker, the extracted payload text is the
\* content between the first such marker and the next closing fence after it,
\* also when further fences or prose follow the first fenced block.
C7_FirstFencedBlockExtracted ==
    (/\ Classified
     /\ HasJsonMarker(e_text)
     /\ FencesAfterMarker(e_text) # {}
     /\ e_text[Min(FencesAfterMarker(e_text))] = "F")
    => e_clean = Strip(FirstFencedBlock(e_text))

\* t has a "{" with a "}" after it
HasBracePair(t) ==
    \E i, j \in 1..Len(t) : i < j /\ t[i] = "{" /\ t[j] = "}"

\* from the first "{" of t to its last "}", both included
OuterBraces(t) ==
    LET i == CHOOSE a \in 1..Len(t) : t[a] = "{" /\ \A b \in 1..(a - 1) : t[b] # "{"
        j == CHOOSE a \in 1..Len(t) : t[a] = "}" /\ \A b \in (a + 1)..Len(t) : t[b] # "}"
    IN  SubSeq(t, i, j)

\* C8: when the text holds no ```json marker, extraction takes the substring
\* from the first "{" to the last "}", so that an object surrounded by prose is
\* still extracted and parsed.
C8_OuterBracesExtracted ==
    (~HasJsonMarker(e_text) /\ HasBracePair(e_text)) =>
        /\ Classified =>
              /\ e_clean = OuterBraces(e_text)
              /\ json_loads(OuterBraces(e_text)).kind = "dict"
                    => e_resp # InvalidResponse
        /\ e_pc = "done" => (e_match.found /\ e_match.text = OuterBraces(e_text))

\* C9: a text without a brace pair fails as "no JSON found" and a text whose
\* extracted substring does not parse as a mapping fails as "malformed JSON";
\* neither is reported as the other, nor as the generic classification error.
C9_NoJsonAndMalformedJsonDistinct ==
    /\ (Classified /\ ~HasBracePair(e_text)) =>
          /\ ~e_resp.success
          /\ e_resp.error # InvalidResponse.error
          /\ e_resp.error # <<"Error during classification">>
    /\ (Classified /\ HasBracePair(e_text) /\ json_loads(e_clean).kind # "dict") =>
          e_resp = InvalidResponse
    /\ (e_pc = "done" /\ ~HasBracePair(e_text)) =>
          e_result = ProcessingError(<<NoJsonMessage>>)
    /\ (e_pc = "done" /\ HasBracePair(e_text)
          /\ json_loads(OuterBraces(e_text)).kind # "dict") =>
          e_result = ProcessingError(<<"JSONDecodeError">>)

\* the field names a message spells out
FieldsNamed(message) ==
    { message[i] : i \in 1..Len(message) } \cap (RequiredKeys \cup {"category"})

\* C10: a payload that lacks a required field fails with a missing-field error
\* that names the absent field; without "confidence" the error names
\* "confidence".
C10_MissingFieldNamed ==
    (/\ Classified
     /\ json_loads(e_clean).kind = "dict"
     /\ \E k \in {"category", "confidence"} : k \notin DOMAIN json_loads(e_clean).obj)
    => /\ ~e_resp.success
       /\ \A k \in {"category", "confidence"} \ DOMAIN json_loads(e_clean).obj :
              k \in FieldsNamed(e_resp.details)
(***************************************************************************)
(* The derived fields of a successful response.                            *)
(***************************************************************************)
Succeeded == pc = "responded" /\ response.body.success

\* the parsed payload of the reply the handler is answering
Payload == PayloadOf(reply.text)

\* the label of the first keyword, in table order, that the lower-cased
\* category does not contain; "General Waste" when it contains them all
FirstKeywordNotIn(category) ==
    LET keyword == <<"plastic", "paper", "metal", "glass", "biodegradable", "hazardous",
                     "e-waste">>
        label   == <<"Recyclable (paper)", "Recyclable (plastic)", "Recyclable (glass)",
                     "Recyclable (metal)", "Compostable", "Special Disposal",
                     "Electronic Waste">>
        In(i)   == Contains(Chars[keyword[i]], LowerChars(Chars[category]))
    IN  IF \A i \in 1..7 : In(i) THEN "General Waste"
        ELSE label[CHOOSE i \in 1..7 : ~In(i) /\ \A j \in 1..(i - 1) : In(j)]

\* C11: when the payload carries no secondary category, the secondary
\* category of the result is the label of the first table entry whose
\* keyword is not a case-insensitive substring of the primary category, and
\* "General Waste" only when every keyword is one; "Plastic Bottle" gives
\* "Recyclable (plastic)".
C11_SecondaryIsFirstKeywordNotInPrimary ==
    (Succeeded /\ "secondary_category" \notin DOMAIN Payload) =>
        /\ response.body.secondary_category = FirstKeywordNotIn(response.body.primary_category)
        /\ (response.body.primary_category = "Plastic Bottle"
                => response.body.secondary_category = "Recyclable (plastic)")
        /\ (response.body.secondary_category = "General Waste"
                <=> \A k \in {"plastic", "paper", "metal", "glass", "biodegradable",
                               "hazardous", "e-waste"} :
                        Contains(Chars[k], LowerChars(Chars[response.body.primary_category])))

C11_Witness ==
    /\ Succeeded
    /\ "secondary_category" \notin DOMAIN Payload
    /\ response.body.primary_category = "Plastic Bottle"
    /\ response.body.secondary_category = "Recyclable (plastic)"

\* the branch where every keyword is found is reached as well
C11_GeneralWasteReached ==
    Succeeded /\ response.body.secondary_category = "General Waste"

\* the secondary confidence of every response of /classify is the primary
\* confidence less 10, clamped to [0, 100] (holds of Spec)
LivePathUsesLess10 ==
    Succeeded =>
        LET p == response.body.primary_confidence IN
        response.body.secondary_confidence =
            (IF p - 10 < 0 THEN 0 ELSE IF p - 10 > 100 THEN 100 ELSE p - 10)

\* a response whose offset is not hidden by the clamp
LivePathUsesLess10_Reached ==
    /\ Succeeded
    /\ response.body.primary_confidence = 85
    /\ response.body.secondary_confidence = 75

\* the handler has answered a reply the model gave
Answered == pc = "responded" /\ reply # NoReply /\ reply.exc = ""

TextualConfidence ==
    /\ HasRequiredFields(Payload)
    /\ Payload["category"].ty = "str"
    /\ Payload["confidence"].ty = "str"
    /\ Payload["confidence"].s \in {"high", "medium", "low"}

\* C13: a textual confidence of high, medium or low in the payload is
\* accepted and mapped to an integer within [0, 100], the three integers
\* strictly ordered high > medium > low (so high is at least 2, medium lies
\* in 1..99 and low is at most 98).
C13_TextualConfidenceMapped ==
    (Answered /\ TextualConfidence) =>
        /\ response.body.success
        /\ response.body.primary_confidence \in 0..100
        /\ (Payload["confidence"].s = "high" => response.body.primary_confidence >= 2)
        /\ (Payload["confidence"].s = "medium" => response.body.primary_confidence \in 1..99)
        /\ (Payload["confidence"].s = "low" => response.body.primary_confidence <= 98)

\* C14: the biodegradability flag of the result is the payload's explicit
\* field whenever the payload has one; only without it is the flag inferred
\* from whether the primary category contains "biodegradable",
\* case-insensitively.
C14_ExplicitBiodegradabilityWins ==
    Succeeded =>
        IF "is_biodegradable" \in DOMAIN Payload
        THEN response.body.is_biodegradable = (Payload["is_biodegradable"].n = 1)
        ELSE response.body.is_biodegradable =
                Contains(Chars["biodegradable"],
                         LowerChars(Chars[response.body.primary_category]))

SuccessKeys ==
    {"success", "item_name", "primary_category", "primary_confidence", "secondary_category",
     "secondary_confidence", "combined_category", "is_biodegradable", "disposal_advice"}

\* C15: every response is a mapping of one of two shapes: a success has
\* exactly the keys success, item_name, primary_category,
\* primary_confidence, secondary_category, secondary_confidence,
\* combined_category, is_biodegradable and disposal_advice; a failure has
\* success = false and an error message.
C15_ResponseHasOneOfTwoShapes ==
    pc = "responded" =>
        /\ "success" \in DOMAIN response.body
        /\ IF response.body.success
           THEN DOMAIN response.body = SuccessKeys
           ELSE "error" \in DOMAIN response.body /\ response.body.error # <<>>

\* C18: the handle is constructed once per process and read-only
\* afterwards: whatever requests have run, WasteClassifier has been
\* constructed once and the handle's fields are as they were constructed.
C18_HandleConstructedOnce ==
    classifier_global.made =>
        /\ constructions = 1
        /\ classifier_global = WasteClassifier(env)

(***************************************************************************)
(* Extraction from a text that is already the payload (SpecExtract).       *)
(***************************************************************************)
\* a JSON object and nothing else: it opens with "{", closes with "}", and
\* holds members and white space only
IsBareObject(t) ==
    /\ Len(t) >= 2
    /\ t[1] = "{" /\ t[Len(t)] = "}"
    /\ \A i \in 2..(Len(t) - 1) : t[i] \in MemberSymbols \cup {" "}

\* C20: extraction is idempotent on bare JSON: from a text that is a bare
\* JSON object both extractors return the text unchanged, and extracting
\* again from what they returned gives the same text.
C20_ExtractionIdempotentOnBareJson ==
    (e_pc = "done" /\ IsBareObject(e_text)) =>
        /\ e_clean = e_text
        /\ CleanText(e_clean) = e_clean
        /\ e_match = [found |-> TRUE, text |-> e_text]
        /\ JsonMatch(e_match.text) = e_match

\* a bare object with two members and white space inside it
C20_Witness ==
    /\ e_pc = "done"
    /\ e_text = <<"{", "category:Plastic Bottle", " ", "confidence:85", "}">>
    /\ e_clean = e_text
    /\ e_match.text = e_text
    /\ e_resp.success

(***************************************************************************)
(* The stage boundaries (SpecStages).                                      *)
(***************************************************************************)
\* C19: no stage raises past its own boundary: for every input
\* validate_image returns a (valid, value) pair, and for every input and
\* every outcome of the model call classify_waste returns a mapping with a
\* success flag; no exception leaves either call.
C19_NoStageRaises ==
    /\ v_pc = "returned" =>
          /\ ~IsRaised(v_out)
          /\ v_out.valid \in BOOLEAN
          /\ IF v_out.valid THEN v_out.buffer # NoBuffer ELSE v_out.reason # ""
    /\ w_pc = "returned" =>
          /\ ~IsRaised(w_out)
          /\ "success" \in DOMAIN w_out
          /\ w_out.success \in BOOLEAN

\* a provider error came back as a mapping
C19_Witness ==
    /\ w_pc = "returned"
    /\ w_reply.exc = "ResourceExhausted"
    /\ w_out.success = FALSE
    /\ w_out.error[1] = "Error classifying image: "

\* so did a reply whose biodegradable field is a number
C19_NonStringFieldReached ==
    /\ w_pc = "returned"
    /\ w_reply.exc = ""
    /\ RequiredKeys \subseteq DOMAIN json_loads(JsonMatch(w_reply.text).text).obj
    /\ json_loads(JsonMatch(w_reply.text).text).obj["biodegradable"].ty = "int"
    /\ w_out.success = FALSE

C19_SuccessReached == w_pc = "returned" /\ w_out.success

C19_ValidateOtherReached == v_pc = "returned" /\ v_in.kind = "other" /\ ~v_out.valid

(***************************************************************************)
(* The formatter (SpecFormat).                                             *)
(***************************************************************************)
Formatted == f_pc = "formatted"

\* C16: format_classification_result never fails: for every mapping, also
\* one with optional fields absent or with a numeric confidence, it returns
\* a mapping with a success flag, and a successful one has its item name
\* and its advice, "Unknown item" (title-cased or not) and "No specific
\* disposal advice available." standing in for absent ones.
C16_FormatNeverFails ==
    Formatted =>
        /\ ~IsRaised(f_out)
        /\ "success" \in DOMAIN f_out
        /\ f_out.success =>
              /\ {"item_name", "advice"} \subseteq DOMAIN f_out
              /\ "item_name" \notin DOMAIN f_in =>
                    f_out.item_name \in {"Unknown item", "Unknown Item"}
              /\ {"disposal_advice", "advice"} \cap DOMAIN f_in = {} =>
                    f_out.advice = Str("No specific disposal advice available.")

Prepared == f_result # Off /\ f_pc \in {"call", "formatted"}

C21_ModelOnlyAfterValidation ==
    [][ /\ (constructions' # constructions \/ (reply' # reply /\ reply' # NoReply)) =>
              (validation.valid /\ request.has_file /\ request.filename # "")
        /\ (pc = "idle" /\ pc' = "validated") => validation'.valid
        /\ (pc = "idle" /\ pc' = "responded") =>
              /\ ~response'.body.success
              /\ constructions' = constructions
              /\ classifier' = None
              /\ reply' = NoReply /\ model_input' = NoBuffer ]_vars

\* a rejected image answered without classifier or model call
C21_Witness ==
    /\ pc = "responded"
    /\ request.has_file /\ request.filename # ""
    /\ ~validation.valid /\ validation.reason # ""
    /\ response.status = 400
    /\ classifier = None /\ reply = NoReply

\* and an accepted one for which the model was called
C21_ModelCalledReached ==
    pc = "replied" /\ validation.valid /\ classifier.made /\ reply # NoReply

(***************************************************************************)
(* Requests do not affect one another (Spec).                              *)
(***************************************************************************)
\* the response to a request, from the request, the environment and the
\* model's outcome for it alone
OutcomeOf(req, e, r) ==
    IF ~req.has_file
    THEN [status |-> 400,
          body |-> [success |-> FALSE, error |-> <<"No file part in the request">>]]
    ELSE IF req.filename = ""
    THEN [status |-> 400, body |-> [success |-> FALSE, error |-> <<"No selected file">>]]
    ELSE LET v == validate_image([kind |-> "stream", file |-> req.file,
                                  ext |-> "", exists |-> TRUE]) IN
    IF ~v.valid
    THEN [status |-> 400,
          body |-> [success |-> FALSE, error |-> <<"Invalid image: ", v.reason>>]]
    ELSE IF ~get_classifier(e).made
    THEN [status |-> 500,
          body |-> [success |-> FALSE, error |-> <<"Failed to initialize classifier">>]]
    ELSE IF r.exc # ""
    THEN [status |-> 500, body |-> ClassificationError(r.exc, "provider error")]
    ELSE LET body == ClassifyReply(r.text)
         IN  [status |-> IF body.success THEN 200 ELSE 500, body |-> body]

\* C22: a failed request changes no state that a later request reads: no
\* step of any request rebinds or modifies the module-level classifier,
\* a request that returns leaves nothing of its own behind, and the
\* response to each request is decided by its own upload and the model's
\* reply to it.
C22_RequestsAreIndependent ==
    [][ /\ classifier_global' = classifier_global
        /\ env' = env
        /\ pc' = "responded" => response' = OutcomeOf(request', env', reply')
        /\ pc' = "idle" =>
              /\ request' = NoRequest /\ file_data' = NoBuffer
              /\ validation' = NoOutcome /\ classifier' = None
              /\ model_input' = NoBuffer /\ reply' = NoReply
              /\ response' = NoResponse ]_vars

\* a request that fails at the parse, in a process that has answered one
\* request already and whose handle is as it was built
C22_Witness ==
    /\ served = 1
    /\ pc = "responded"
    /\ reply # NoReply /\ reply.exc = ""
    /\ ~response.body.success
    /\ classifier_global.made
    /\ classifier_global = WasteClassifier(env)

\* a request that succeeds after another was answered
C22_SuccessAfterAnotherReached ==
    served = 1 /\ pc = "responded" /\ response.body.success

(***************************************************************************)
(* The handle and the name it reports (Spec).                              *)
(***************************************************************************)
\* C23: after WasteClassifier construction succeeds, model_name is the
\* name of the model variant the handle holds, whichever tier of the
\* fallback produced the model; for the module-level handle and for the
\* handle of a request.
C23_ModelNameIsModelHeld ==
    /\ classifier_global.made => classifier_global.model_name = classifier_global.model
    /\ classifier.made => classifier.model_name = classifier.model

\* the word "biodegradable", letter by letter
BiodegradableWord == <<"b", "i", "o", "d", "e", "g", "r", "a", "d", "a", "b", "l", "e">>

\* C24: in a success response is_biodegradable is true exactly when the
\* lower-cased primary category contains "biodegradable"; so the category
\* "Non-biodegradable" yields true.
C24_BiodegradableIffSubstring ==
    Succeeded =>
        LET category == LowerChars(Chars[response.body.primary_category]) IN
        /\ response.body.is_biodegradable <=>
              \E i \in 1..Len(category) :
                  /\ i + 12 <= Len(category)
                  /\ \A j \in 1..13 : category[i + j - 1] = BiodegradableWord[j]
        /\ response.body.primary_category = "Non-biodegradable" =>
              response.body.is_biodegradable
        /\ response.body.primary_category = "Plastic Bottle" =>
              ~response.body.is_biodegradable

C24_Witness ==
    /\ Succeeded
    /\ response.body.primary_category = "Non-biodegradable"
    /\ response.body.is_biodegradable

\* a category that needs lower() to match
C24_CapitalReached ==
    /\ Succeeded
    /\ response.body.primary_category = "Biodegradable"
    /\ response.body.is_biodegradable

(***************************************************************************)
(* validate_image on a path and on the bytes of the same file              *)
(* (SpecValidate).                                                         *)
(***************************************************************************)
\* what validate_image returns for the content of the file as a byte stream
OnStream(f) == validate_image([kind |-> "stream", file |-> f, ext |-> "", exists |-> TRUE])

\* C25: validate_image gives the same accept/reject outcome and the same
\* rejection reason for a file given as a path, under a name with a
\* supported extension, and for the same file's content given as a byte
\* stream: an empty file, an oversize file, an undecodable file, a
\* decodable file of an unsupported format.
C25_PathAndStreamAgree ==
    (Returned /\ v_in.kind = "path" /\ v_in.exists /\ v_in.ext \in {".png", ".jpg"}) =>
        /\ v_out.valid = OnStream(v_in.file).valid
        /\ v_out.reason = OnStream(v_in.file).reason

\* the two cases that differ, each on its own
C25_EmptyFileAgrees ==
    (Returned /\ v_in.kind = "path" /\ v_in.exists /\ v_in.ext = ".png"
        /\ v_in.file.size = 0) =>
        v_out.reason = OnStream(v_in.file).reason

C25_GifUnderPngNameAgrees ==
    (Returned /\ v_in.kind = "path" /\ v_in.exists /\ v_in.ext = ".png"
        /\ v_in.file.header = "GIF" /\ Decodes(v_in.file) /\ ~TooLarge(v_in.file.size)) =>
        v_out.valid = OnStream(v_in.file).valid

====
